---- MODULE Spec2Model ----
(***************************************************************************)
(* Nitty: signup/login with bearer tokens, and ownership-gated CRUD over   *)
(* communities and events.  The relational store is modelled as three      *)
(* tables (functions from primary key to row) together with the            *)
(* constraints the table models declare: UNIQUE(email), NOT NULL columns   *)
(* and the foreign keys.  A request handler is split where it talks to the *)
(* store: the router's read and checks (…Begin) and the service's write    *)
(* (…Commit); a handler with a single statement is one action.             *)
(***************************************************************************)
EXTENDS Integers, Sequences, FiniteSets, TLC

VARIABLES
    users,              \* table user:      id -> row
    communities,        \* table community: id -> row
    events,             \* table event:     id -> row
    next_id,            \* [user, community, event]: the next fresh primary key of each table
    now,                \* the clock read by datetime.now() / datetime.utcnow()
    fk_enforced,        \* whether the store of this deployment enforces foreign keys
    bearer,             \* the token a client holds for its Authorization header, if any
    requests            \* the requests being served: slot -> request/response record

vars == <<users, communities, events, next_id, now, fk_enforced, bearer, requests>>

----------------------------------------------------------------------------
(* Bounds of the model *)

MaxUsers == 2
MaxCommunities == 1
MaxEvents == 1
MaxClock == 1
MaxInFlight == 2

(* Optional[T]: None is the empty tuple, a value v is <<v>>.  A patch field *)
(* is unset (Unset), or set to an Optional value (Set(None), Set(Some(v))). *)
None == <<>>
Some(v) == <<v>>
Unset == <<>>
Set(v) == <<v>>

(* Primary keys are uuid4 values, never given twice; the model numbers the  *)
(* rows of a table in the order of their creation, and str(id) is ToString  *)
UserIds == 1..MaxUsers
CommunityIds == 1..MaxCommunities
EventIds == 1..MaxEvents
Slots == 1..MaxInFlight
SeqSlots == {1}

(* An empty table *)
EmptyTable == [k \in {} |-> None]

(* The table with one more row *)
Insert(table, id, row) == [k \in DOMAIN table \cup {id} |-> IF k = id THEN row ELSE table[k]]

(* A delete that is never flushed *)
Delete_Nothing(table, id) == table

(* session.delete(row); session.commit(): the table without the row of      *)
(* primary key id                                                           *)
Delete(table, id) == [k \in DOMAIN table \ {id} |-> table[k]]

----------------------------------------------------------------------------
(* Requests and responses *)

NoPatch == [unset |-> TRUE]

IdleRequest ==
    [pc |-> "idle", op |-> "none", caller |-> 0, id |-> 0, patch |-> NoPatch,
     row |-> None, status |-> 0, detail |-> "", body |-> None]

(* A slot can take a new request when it serves none *)
Free(s) == requests[s].pc \in {"idle", "done"}

(* The request of slot s, read by the router and waiting for the service's write *)
Pending(s, op) == requests[s].pc = "commit" /\ requests[s].op = op

Request(op, caller, id, patch, row) ==
    [pc |-> "commit", op |-> op, caller |-> caller, id |-> id, patch |-> patch,
     row |-> row, status |-> 0, detail |-> "", body |-> None]

(* The response to req.  The handler's locals (the body it parsed, the row  *)
(* it read) end with the request.                                           *)
Response(req, status, detail, body) ==
    [req EXCEPT !.pc = "done", !.patch = NoPatch, !.row = None,
                !.status = status, !.detail = detail, !.body = body]

(* An exception no handler catches: the framework answers 500 *)
ServerError(req) == Response(req, 500, "Internal Server Error", None)

(* Slot s goes on to resp.  Only the response sent last is kept. *)
Reply(s, resp) ==
    requests' = [t \in DOMAIN requests |->
                    IF t = s THEN resp
                    ELSE IF resp.pc = "done" /\ requests[t].pc = "done" THEN IdleRequest
                    ELSE requests[t]]

----------------------------------------------------------------------------
(* The store's writes.  For each attribute a handler assigns, the session   *)
(* holds the value it loaded (loaded) and the value assigned (obj); the     *)
(* flush writes the attributes whose value differs from the loaded one, to  *)
(* the row of that primary key.  The loaded updated_at is not kept: the     *)
(* clock never runs backwards, so a reading equal to the loaded updated_at  *)
(* finds that same value in the row and rewrites it.                        *)

(* The loaded values of the attributes fields of a row *)
Loaded(row, fields) == [f \in fields \cap DOMAIN row |-> row[f]]

NoFields == {}

Dirty(loaded, obj) == {f \in DOMAIN obj : f \notin DOMAIN loaded \/ obj[f] # loaded[f]}

(* The row after UPDATE ... SET <dirty columns> WHERE id = ... *)
Flushed(current, loaded, obj) ==
    [f \in DOMAIN current |-> IF f \in Dirty(loaded, obj) THEN obj[f] ELSE current[f]]

(* setattr(obj, key, value) for each key of data *)
sqlmodel_update(obj, data) ==
    [f \in DOMAIN obj \cup DOMAIN data |-> IF f \in DOMAIN data THEN data[f] ELSE obj[f]]

(* model_dump(exclude_unset=True): the fields the request body set, each    *)
(* with the Optional value it was set to                                    *)
model_dump_exclude_unset(model_in) ==
    [f \in {g \in DOMAIN model_in : model_in[g] # Unset} |-> model_in[f][1]]

(* d1 with the keys of d2 added or overwritten *)
Merge(d1, d2) ==
    [f \in DOMAIN d1 \cup DOMAIN d2 |-> IF f \in DOMAIN d2 THEN d2[f] ELSE d1[f]]

(* NOT NULL: none of the columns cols of the row is NULL *)
NotNull(row, cols) == \A f \in cols : row[f] # None

----------------------------------------------------------------------------
(* Communities: models *)

(* Columns declared without Optional: NOT NULL in the table *)
CommunityNotNull == {"name", "is_public", "is_active", "updated_at"}

(* Request bodies of POST /communities/ *)
CommunityCreate ==
    [name : {Some("n1")}, description : {None}, is_public : {Some(TRUE)},
     is_active : {Some(TRUE)}]

(* The fields a PUT /communities/{id} body can carry *)
MaxPatchFields == 1

FieldsSet(model_in) == {f \in DOMAIN model_in : model_in[f] # Unset}

(* Request bodies that could also name the creator *)
CommunityUpdate_WithCreator ==
    {p \in [name : {Unset, Set(Some("n2"))},
            description : {Unset},
            is_public : {Unset},
            is_active : {Unset},
            created_by : {Unset} \cup {Set(u) : u \in UserIds}] :
        Cardinality(FieldsSet(p)) <= MaxPatchFields}

(* Request bodies of PUT /communities/{id}: every field is Optional, so a   *)
(* body may leave it out, set it, or set it to null                         *)
CommunityUpdate ==
    {p \in [name : {Unset, Set(None), Set(Some("n2"))},
            description : {Unset},
            is_public : {Unset},
            is_active : {Unset, Set(Some(TRUE)), Set(Some(FALSE))}] :
        Cardinality(FieldsSet(p)) <= MaxPatchFields}

----------------------------------------------------------------------------
(* Communities: service *)

create_community(community_create, created_by, t) ==
    [name |-> community_create.name, description |-> community_create.description,
     is_public |-> community_create.is_public, is_active |-> community_create.is_active,
     updated_at |-> Some(t), created_by |-> created_by]

(* A read by id that skips soft-deleted rows *)
get_community_ActiveOnly(table, community_id) ==
    IF community_id \in DOMAIN table /\ table[community_id].is_active = Some(TRUE)
    THEN Some(table[community_id])
    ELSE None

get_community(table, community_id) ==
    IF community_id \in DOMAIN table THEN Some(table[community_id]) ELSE None

(* An update that also sets the active flag *)
update_community_Reactivates(db_community, community_in, t) ==
    sqlmodel_update(db_community,
        Merge(Merge([is_active |-> Some(TRUE)], model_dump_exclude_unset(community_in)),
              [updated_at |-> Some(t)]))

(* The object of the session after update_community's sqlmodel_update *)
update_community(db_community, community_in, t) ==
    sqlmodel_update(db_community,
        Merge(model_dump_exclude_unset(community_in), [updated_at |-> Some(t)]))

(* A soft delete that only touches updated_at *)
delete_community_KeepsActive(community, t) ==
    sqlmodel_update(community, [updated_at |-> Some(t)])

(* The object of the session after delete_community's two assignments *)
delete_community(community, t) ==
    sqlmodel_update(community, [is_active |-> Some(FALSE), updated_at |-> Some(t)])

(* Rows of events that reference the community *)
EventsOfCommunity(community_id) ==
    {e \in DOMAIN events : events[e].community_id = community_id}

(* The rows a listing returns: the filtered rows in the order the store     *)
(* yields them, from offset skip, at most limit of them                     *)
Page(ordered, skip, limit) ==
    SubSeq(ordered, skip + 1, IF skip + limit < Len(ordered) THEN skip + limit ELSE Len(ordered))

(* The orders in which a set of primary keys can be returned *)
Orders(ids) ==
    {o \in [1..Cardinality(ids) -> ids] : \A i, j \in DOMAIN o : i # j => o[i] # o[j]}

(* The rows get_communities selects, before offset and limit *)
CommunitiesMatching(table, is_public, is_active) ==
    {c \in DOMAIN table :
        /\ is_public # None => table[c].is_public = is_public
        /\ is_active # None => table[c].is_active = is_active}

(* The results get_communities can return: no ORDER BY, so any order *)
get_communities(table, skip, limit, is_public, is_active) ==
    {Page(o, skip, limit) : o \in Orders(CommunitiesMatching(table, is_public, is_active))}

----------------------------------------------------------------------------
(* Communities: router *)

(* Depends(get_current_user): the identity the bearer token resolves to *)
AuthenticatedUsers == DOMAIN users

(* The guard dropped: every caller passes *)
NotCreator_AnyCaller(resource, current_user) == FALSE

(* resource.created_by != current_user.id *)
NotCreator(resource, current_user) == resource.created_by # current_user

(* Query(0, ge=0) and Query(100, ge=1, le=1000) *)
DefaultSkip == 0
DefaultLimit == 100

(* The query strings tried on GET /communities/: the defaults, and each    *)
(* is_active filter                                                         *)
CommunityQueries ==
    [skip : {DefaultSkip}, limit : {DefaultLimit}, is_public : {None},
     is_active : {None, Some(TRUE), Some(FALSE)}]

(* POST /communities/ *)
CreateCommunity(s, current_user, community_in) ==
    /\ Free(s)
    /\ next_id.community <= MaxCommunities
    /\ LET id == next_id.community
           community == create_community(community_in, current_user, now)
       IN  /\ communities' = Insert(communities, id, community)
           /\ next_id' = [next_id EXCEPT !.community = id + 1]
           /\ Reply(s, Response(Request("create_community", current_user, id, NoPatch, None),
                                200, "", Some(community)))
    /\ UNCHANGED <<users, events, now, fk_enforced, bearer>>

(* GET /communities/ *)
GetCommunities(s, q) ==
    /\ Free(s)
    /\ \E result \in get_communities(communities, q.skip, q.limit, q.is_public, q.is_active) :
          Reply(s, Response(Request("get_communities", 0, 0, q, None), 200, "", result))
    /\ UNCHANGED <<users, communities, events, next_id, now, fk_enforced, bearer>>

(* GET /communities/{community_id} *)
GetCommunity(s, community_id) ==
    /\ Free(s)
    /\ LET community == get_community(communities, community_id)
           req == Request("get_community", 0, community_id, NoPatch, None)
       IN  IF community = None
           THEN Reply(s, Response(req, 404, "Community not found", None))
           ELSE Reply(s, Response(req, 200, "", community))
    /\ UNCHANGED <<users, communities, events, next_id, now, fk_enforced, bearer>>

(* The read and the two checks that open PUT /communities/{id}, DELETE      *)
(* /communities/{id} and DELETE /communities/{id}/permanent                 *)
(* The guard answering 403 for an id without row *)
CommunityGuard_ForbiddenOnMissing(s, op, current_user, community_id, community_in, assigned) ==
    /\ Free(s)
    /\ LET community == get_community(communities, community_id)
           req == Request(op, current_user, community_id, community_in,
                          IF community = None THEN None
                          ELSE Some(Loaded(community[1], assigned)))
       IN  IF community = None
           THEN Reply(s, Response(req, 403, "Not enough permissions", None))
           ELSE IF NotCreator(community[1], current_user)
           THEN Reply(s, Response(req, 403, "Not enough permissions", None))
           ELSE Reply(s, req)
    /\ UNCHANGED <<users, communities, events, next_id, now, fk_enforced, bearer>>

CommunityGuard(s, op, current_user, community_id, community_in, assigned) ==
    /\ Free(s)
    /\ LET community == get_community(communities, community_id)
           req == Request(op, current_user, community_id, community_in,
                          IF community = None THEN None
                          ELSE Some(Loaded(community[1], assigned)))
       IN  IF community = None
           THEN Reply(s, Response(req, 404, "Community not found", None))
           ELSE IF NotCreator(community[1], current_user)
           THEN Reply(s, Response(req, 403, "Not enough permissions", None))
           ELSE Reply(s, req)
    /\ UNCHANGED <<users, communities, events, next_id, now, fk_enforced, bearer>>

(* PUT /communities/{community_id} *)
UpdateCommunityBegin(s, current_user, community_id, community_in) ==
    CommunityGuard(s, "update_community", current_user, community_id, community_in,
                   FieldsSet(community_in))

UpdateCommunityCommit(s) ==
    /\ Pending(s, "update_community")
    /\ LET req == requests[s]
           loaded == req.row[1]
           obj == update_community(loaded, req.patch, now)
       IN  IF req.id \notin DOMAIN communities
           THEN \* UPDATE matches no row (StaleDataError), or refresh finds none
                /\ Reply(s, ServerError(req))
                /\ UNCHANGED communities
           ELSE LET row == Flushed(communities[req.id], loaded, obj)
                IN  IF ~NotNull(row, CommunityNotNull)
                    THEN \* IntegrityError
                         /\ Reply(s, ServerError(req))
                         /\ UNCHANGED communities
                    ELSE /\ communities' = [communities EXCEPT ![req.id] = row]
                         /\ Reply(s, Response(req, 200, "", Some(row)))
    /\ UNCHANGED <<users, events, next_id, now, fk_enforced, bearer>>

(* DELETE /communities/{community_id} *)
DeleteCommunityBegin(s, current_user, community_id) ==
    CommunityGuard(s, "delete_community", current_user, community_id, NoPatch,
                   {"is_active"})

DeleteCommunityCommit(s) ==
    /\ Pending(s, "delete_community")
    /\ LET req == requests[s]
           loaded == req.row[1]
       IN  IF req.id \notin DOMAIN communities
           THEN \* the service's read finds no row (False: 400), or finds it and
                \* the row is gone when the UPDATE runs (StaleDataError)
                /\ \E resp \in {Response(req, 400, "Failed to delete community", None),
                                ServerError(req)} : Reply(s, resp)
                /\ UNCHANGED communities
           ELSE /\ communities' = [communities EXCEPT ![req.id] =
                        Flushed(@, loaded, delete_community(loaded, now))]
                /\ Reply(s, Response(req, 200, "Community deleted successfully", None))
    /\ UNCHANGED <<users, events, next_id, now, fk_enforced, bearer>>

(* DELETE /communities/{community_id}/permanent *)
PermanentlyDeleteCommunityBegin(s, current_user, community_id) ==
    CommunityGuard(s, "hard_delete_community", current_user, community_id, NoPatch, NoFields)

PermanentlyDeleteCommunityCommit(s) ==
    /\ Pending(s, "hard_delete_community")
    /\ LET req == requests[s]
       IN  IF req.id \notin DOMAIN communities
           THEN \* the service's read finds no row (False: 400), or finds it and
                \* the DELETE matches no row (a warning only)
                /\ \E resp \in {Response(req, 400, "Failed to permanently delete community", None),
                                Response(req, 200, "Community permanently deleted", None)} :
                      Reply(s, resp)
                /\ UNCHANGED communities
           ELSE IF fk_enforced /\ EventsOfCommunity(req.id) # {}
           THEN \* event.community_id still references the row: IntegrityError
                /\ Reply(s, ServerError(req))
                /\ UNCHANGED communities
           ELSE /\ communities' = Delete(communities, req.id)
                /\ Reply(s, Response(req, 200, "Community permanently deleted", None))
    /\ UNCHANGED <<users, events, next_id, now, fk_enforced, bearer>>

----------------------------------------------------------------------------
(* Events: models.  The columns modelled are title, start_time, is_active,  *)
(* is_public, updated_at, created_by and community_id; description,         *)
(* end_time, location, is_online and max_attendees pass through the same    *)
(* statements as title and is_public and are read by no check.              *)

EventNotNull == {"title", "start_time", "is_active", "is_public", "updated_at"}

(* Request bodies of POST /events/ *)
EventCreate ==
    [title : {Some("t1")}, start_time : {Some(1)}, is_active : {Some(TRUE)},
     is_public : {Some(TRUE)}, community_id : CommunityIds]

(* Request bodies of PUT /events/{id} *)
EventUpdate ==
    {p \in [title : {Unset, Set(None), Set(Some("t2"))},
            start_time : {Unset},
            is_active : {Unset, Set(Some(TRUE)), Set(Some(FALSE))},
            is_public : {Unset}] :
        Cardinality(FieldsSet(p)) <= MaxPatchFields}

----------------------------------------------------------------------------
(* Events: service *)

create_event(event_create, created_by, t) ==
    [title |-> event_create.title, start_time |-> event_create.start_time,
     is_active |-> event_create.is_active, is_public |-> event_create.is_public,
     updated_at |-> Some(t), created_by |-> created_by,
     community_id |-> event_create.community_id]

get_event(table, event_id) ==
    IF event_id \in DOMAIN table THEN Some(table[event_id]) ELSE None

(* The object of the session after update_event's sqlmodel_update *)
update_event(db_event, event_in, t) ==
    sqlmodel_update(db_event,
        Merge(model_dump_exclude_unset(event_in), [updated_at |-> Some(t)]))

(* The object of the session after delete_event's two assignments *)
delete_event(event, t) ==
    sqlmodel_update(event, [is_active |-> Some(FALSE), updated_at |-> Some(t)])

(* The rows get_events selects, before order, offset and limit *)
EventsMatching(table, community_id, is_public, is_active, upcoming_only, t) ==
    {e \in DOMAIN table :
        /\ community_id # None => table[e].community_id = community_id[1]
        /\ is_public # None => table[e].is_public = is_public
        /\ is_active # None => table[e].is_active = is_active
        /\ upcoming_only => table[e].start_time[1] >= t}

(* ORDER BY start_time: rows of equal start_time in any order *)
OrdersByStartTime(table, ids) ==
    {o \in Orders(ids) :
        \A i, j \in DOMAIN o : i < j => table[o[i]].start_time[1] <= table[o[j]].start_time[1]}

(* The results get_events can return *)
get_events(table, skip, limit, community_id, is_public, is_active, upcoming_only, t) ==
    {Page(o, skip, limit) :
        o \in OrdersByStartTime(table,
                EventsMatching(table, community_id, is_public, is_active, upcoming_only, t))}

----------------------------------------------------------------------------
(* Events: router *)

(* POST /events/ *)
CreateEventBegin(s, current_user, event_in) ==
    /\ Free(s)
    /\ next_id.event <= MaxEvents
    /\ LET community == get_community(communities, event_in.community_id)
           req == Request("create_event", current_user, 0, event_in,
                          IF community = None THEN None
                          ELSE Some(Loaded(community[1], NoFields)))
       IN  IF community = None
           THEN Reply(s, Response(req, 404, "Community not found", None))
           ELSE IF NotCreator(community[1], current_user)
           THEN Reply(s, Response(req, 403,
                    "Not enough permissions to create events in this community", None))
           ELSE Reply(s, req)
    /\ UNCHANGED <<users, communities, events, next_id, now, fk_enforced, bearer>>

CreateEventCommit(s) ==
    /\ Pending(s, "create_event")
    /\ next_id.event <= MaxEvents
    /\ LET req == requests[s]
           id == next_id.event
           event == create_event(req.patch, req.caller, now)
       IN  IF fk_enforced /\ event.community_id \notin DOMAIN communities
           THEN \* the community was deleted since the check: IntegrityError
                /\ Reply(s, ServerError(req))
                /\ UNCHANGED <<events, next_id>>
           ELSE /\ events' = Insert(events, id, event)
                /\ next_id' = [next_id EXCEPT !.event = id + 1]
                /\ Reply(s, Response([req EXCEPT !.id = id], 200, "", Some(event)))
    /\ UNCHANGED <<users, communities, now, fk_enforced, bearer>>

(* The query strings tried on GET /events/: the defaults, and each         *)
(* is_active filter                                                         *)
EventQueries ==
    [skip : {DefaultSkip}, limit : {DefaultLimit}, community_id : {None}, is_public : {None},
     is_active : {None, Some(TRUE), Some(FALSE)}, upcoming_only : {FALSE}]

(* GET /events/ *)
GetEvents(s, q) ==
    /\ Free(s)
    /\ \E result \in get_events(events, q.skip, q.limit, q.community_id, q.is_public,
                                q.is_active, q.upcoming_only, now) :
          Reply(s, Response(Request("get_events", 0, 0, q, None), 200, "", result))
    /\ UNCHANGED <<users, communities, events, next_id, now, fk_enforced, bearer>>

(* GET /events/{event_id} *)
GetEvent(s, event_id) ==
    /\ Free(s)
    /\ LET event == get_event(events, event_id)
           req == Request("get_event", 0, event_id, NoPatch, None)
       IN  IF event = None
           THEN Reply(s, Response(req, 404, "Event not found", None))
           ELSE Reply(s, Response(req, 200, "", event))
    /\ UNCHANGED <<users, communities, events, next_id, now, fk_enforced, bearer>>

(* The read and the two checks that open PUT /events/{id}, DELETE           *)
(* /events/{id} and DELETE /events/{id}/permanent                           *)
EventGuard(s, op, current_user, event_id, event_in, assigned) ==
    /\ Free(s)
    /\ LET event == get_event(events, event_id)
           req == Request(op, current_user, event_id, event_in,
                          IF event = None THEN None ELSE Some(Loaded(event[1], assigned)))
       IN  IF event = None
           THEN Reply(s, Response(req, 404, "Event not found", None))
           ELSE IF NotCreator(event[1], current_user)
           THEN Reply(s, Response(req, 403, "Not enough permissions", None))
           ELSE Reply(s, req)
    /\ UNCHANGED <<users, communities, events, next_id, now, fk_enforced, bearer>>

(* PUT /events/{event_id} *)
UpdateEventBegin(s, current_user, event_id, event_in) ==
    EventGuard(s, "update_event", current_user, event_id, event_in,
               FieldsSet(event_in))

UpdateEventCommit(s) ==
    /\ Pending(s, "update_event")
    /\ LET req == requests[s]
           loaded == req.row[1]
           obj == update_event(loaded, req.patch, now)
       IN  IF req.id \notin DOMAIN events
           THEN \* UPDATE matches no row (StaleDataError), or refresh finds none
                /\ Reply(s, ServerError(req))
                /\ UNCHANGED events
           ELSE LET row == Flushed(events[req.id], loaded, obj)
                IN  IF ~NotNull(row, EventNotNull)
                    THEN \* IntegrityError
                         /\ Reply(s, ServerError(req))
                         /\ UNCHANGED events
                    ELSE /\ events' = [events EXCEPT ![req.id] = row]
                         /\ Reply(s, Response(req, 200, "", Some(row)))
    /\ UNCHANGED <<users, communities, next_id, now, fk_enforced, bearer>>

(* DELETE /events/{event_id} *)
DeleteEventBegin(s, current_user, event_id) ==
    EventGuard(s, "delete_event", current_user, event_id, NoPatch, {"is_active"})

DeleteEventCommit(s) ==
    /\ Pending(s, "delete_event")
    /\ LET req == requests[s]
           loaded == req.row[1]
       IN  IF req.id \notin DOMAIN events
           THEN /\ \E resp \in {Response(req, 400, "Failed to delete event", None),
                                ServerError(req)} : Reply(s, resp)
                /\ UNCHANGED events
           ELSE /\ events' = [events EXCEPT ![req.id] =
                        Flushed(@, loaded, delete_event(loaded, now))]
                /\ Reply(s, Response(req, 200, "Event deleted successfully", None))
    /\ UNCHANGED <<users, communities, next_id, now, fk_enforced, bearer>>

(* DELETE /events/{event_id}/permanent *)
PermanentlyDeleteEventBegin(s, current_user, event_id) ==
    EventGuard(s, "hard_delete_event", current_user, event_id, NoPatch, NoFields)

PermanentlyDeleteEventCommit(s) ==
    /\ Pending(s, "hard_delete_event")
    /\ LET req == requests[s]
       IN  IF req.id \notin DOMAIN events
           THEN /\ \E resp \in {Response(req, 400, "Failed to permanently delete event", None),
                                Response(req, 200, "Event permanently deleted", None)} :
                      Reply(s, resp)
                /\ UNCHANGED events
           ELSE /\ events' = Delete(events, req.id)
                /\ Reply(s, Response(req, 200, "Event permanently deleted", None))
    /\ UNCHANGED <<users, communities, next_id, now, fk_enforced, bearer>>

----------------------------------------------------------------------------
(* Auth: models and the credential hasher *)

(* Email addresses *)
Email(i) == "user" \o ToString(i) \o "@nitty.org"
Emails == {Email(i) : i \in UserIds}

(* Passwords are byte strings; Field(min_length=8, max_length=40) *)
MinPasswordLength == 8
MaxPasswordLength == 40
Password(n, last) == [i \in 1..n |-> IF i = n THEN last ELSE 97]
Passwords == {Password(MinPasswordLength, 97), Password(MinPasswordLength, 98)}

(* bcrypt salts: drawn at random for every hash, so the salt of a new hash *)
(* differs from the salt of the hash it replaces                            *)
MaxSalts == 2
Salts == 1..MaxSalts
FreshSalts(loaded) ==
    IF "hashed_password" \in DOMAIN loaded
    THEN Salts \ {loaded.hashed_password[1].salt}
    ELSE Salts

(* bcrypt reads the first 72 bytes of the secret *)
BcryptMaxBytes == 72
bcrypt(salt, secret) ==
    <<salt, SubSeq(secret, 1, IF Len(secret) < BcryptMaxBytes THEN Len(secret) ELSE BcryptMaxBytes)>>

(* pwd_context.hash: the hash string carries the scheme, the salt and the digest *)
get_password_hash(password, salt) ==
    [scheme |-> "bcrypt", salt |-> salt, digest |-> bcrypt(salt, password)]

(* pwd_context.verify: recompute with the salt of the hash and compare *)
verify_password(plain_password, hashed_password) ==
    bcrypt(hashed_password.salt, plain_password) = hashed_password.digest

UserNotNull == {"email", "is_active", "is_superuser", "hashed_password"}

(* The columns of table user that a UserUpdate dump can set *)
UserFields == {"email", "is_active", "is_superuser", "full_name", "hashed_password"}

(* Request bodies of POST /signup *)
UserRegister == [email : Emails, password : Passwords, full_name : {None}]

(* UserCreate.model_validate(user_in): is_active and is_superuser take their defaults *)
UserCreate(user_in) ==
    [email |-> Some(user_in.email), password |-> user_in.password,
     full_name |-> user_in.full_name, is_active |-> Some(TRUE), is_superuser |-> Some(FALSE)]

(* The patches given to update_user *)
UserUpdate ==
    {p \in [email : {Unset} \cup {Set(Some(e)) : e \in Emails},
            password : {Unset} \cup {Set(Some(pw)) : pw \in Passwords},
            is_active : {Unset, Set(Some(FALSE)), Set(Some(TRUE))},
            full_name : {Unset}] :
        Cardinality(FieldsSet(p)) <= MaxPatchFields}

----------------------------------------------------------------------------
(* Auth: service *)

(* The constraint not declared: every write passes *)
EmailUnique_Undeclared(table, id, row) == TRUE

(* UNIQUE(email): no other row of the table has the email of this row *)
EmailUnique(table, id, row) == \A k \in DOMAIN table \ {id} : table[k].email # row.email

(* The row create_user adds *)
create_user(user_create, salt) ==
    [email |-> user_create.email, is_active |-> user_create.is_active,
     is_superuser |-> user_create.is_superuser, full_name |-> user_create.full_name,
     hashed_password |-> Some(get_password_hash(user_create.password, salt))]

(* The columns update_user assigns *)
UserUpdateKeys(user_in) ==
    (FieldsSet(user_in) \cap UserFields)
        \cup (IF "password" \in FieldsSet(user_in) THEN {"hashed_password"} ELSE {})

(* An update that leaves extra_data out: the new hash is never assigned *)
update_user_WithoutExtraData(db_user, user_in, salt) ==
    LET user_data == model_dump_exclude_unset(user_in)
    IN  sqlmodel_update(db_user, [f \in (DOMAIN user_data \cap UserFields) |-> user_data[f]])

(* The object of the session after update_user's sqlmodel_update: the keys  *)
(* of the dump that are columns, and the new hash when a password is given  *)
update_user(db_user, user_in, salt) ==
    LET user_data == model_dump_exclude_unset(user_in)
        extra_data ==
            IF "password" \in DOMAIN user_data
            THEN [hashed_password |-> Some(get_password_hash(user_data.password[1], salt))]
            ELSE [f \in {} |-> None]
        data == Merge(user_data, extra_data)
    IN  sqlmodel_update(db_user, [f \in DOMAIN data \cap UserFields |-> data[f]])

(* A lookup that finds nothing *)
get_user_by_email_NoneFound(table, email) == {None}

(* select(User).where(User.email == email).first(): the ids it can return *)
get_user_by_email(table, email) ==
    LET found == {k \in DOMAIN table : table[k].email = Some(email)}
    IN  IF found = {} THEN {None} ELSE {Some(k) : k \in found}

(* authenticate with the outcome of verify_password inverted *)
authenticate_VerifyInverted(table, db_user, password) ==
    IF db_user = None THEN None
    ELSE IF verify_password(password, table[db_user[1]].hashed_password[1]) THEN None
    ELSE db_user

(* authenticate, given the row get_user_by_email found *)
authenticate(table, db_user, password) ==
    IF db_user = None THEN None
    ELSE IF ~verify_password(password, table[db_user[1]].hashed_password[1]) THEN None
    ELSE db_user

(* settings.ACCESS_TOKEN_EXPIRE_MINUTES *)
ACCESS_TOKEN_EXPIRE_MINUTES == 1

(* A token whose expiry is the time of issue *)
create_access_token_NoDelta(subject, expires_delta, t) ==
    [sub |-> ToString(subject), exp |-> t, key |-> "SECRET_KEY"]

(* jwt.encode({"exp": now + expires_delta, "sub": str(subject)}, SECRET_KEY) *)
create_access_token(subject, expires_delta, t) ==
    [sub |-> ToString(subject), exp |-> t + expires_delta, key |-> "SECRET_KEY"]

----------------------------------------------------------------------------
(* Auth: router *)

(* A response to a login keeps the username it answers *)
LoginResponse(req, status, detail, body) ==
    [Response(req, status, detail, body) EXCEPT !.patch = [username |-> req.patch.username]]

(* The login with the active check made before the password check *)
login_access_token_ActiveFirst(table, db_user, req, t) ==
    IF db_user = None
    THEN LoginResponse(req, 400, "Incorrect email or password", None)
    ELSE IF table[db_user[1]].is_active # Some(TRUE)
    THEN LoginResponse(req, 400, "Inactive user", None)
    ELSE IF authenticate(table, db_user, req.patch.password) = None
    THEN LoginResponse(req, 400, "Incorrect email or password", None)
    ELSE LoginResponse(req, 200, "",
            Some([access_token |-> create_access_token(db_user[1], ACCESS_TOKEN_EXPIRE_MINUTES, t),
                  token_type |-> "bearer"]))

(* The response of POST /login/access-token, given the row found by email *)
login_access_token(table, db_user, req, t) ==
    LET user == authenticate(table, db_user, req.patch.password)
    IN  IF user = None
        THEN LoginResponse(req, 400, "Incorrect email or password", None)
        ELSE IF table[user[1]].is_active # Some(TRUE)
        THEN LoginResponse(req, 400, "Inactive user", None)
        ELSE LoginResponse(req, 200, "",
                Some([access_token |-> create_access_token(user[1], ACCESS_TOKEN_EXPIRE_MINUTES, t),
                      token_type |-> "bearer"]))

LoginRequest(username, password) ==
    Request("login", 0, 0, [username |-> username, password |-> password], None)

(* POST /login/access-token *)
LoginAccessToken(s, username, password) ==
    /\ Free(s)
    /\ \E db_user \in get_user_by_email(users, username) :
          Reply(s, login_access_token(users, db_user,
                    LoginRequest(username, password), now))
    /\ UNCHANGED <<users, communities, events, next_id, now, fk_enforced, bearer>>

(* POST /signup: the uniqueness check *)
RegisterUserBegin(s, user_in) ==
    /\ Free(s)
    /\ next_id.user <= MaxUsers
    /\ \E user \in get_user_by_email(users, user_in.email) :
          LET req == Request("register_user", 0, 0, user_in, None)
          IN  IF user # None
              THEN Reply(s, Response(req, 400,
                        "The user with this email already exists in the system", None))
              ELSE Reply(s, req)
    /\ UNCHANGED <<users, communities, events, next_id, now, fk_enforced, bearer>>

(* POST /signup: create_user *)
RegisterUserCommit(s) ==
    /\ Pending(s, "register_user")
    /\ next_id.user <= MaxUsers
    /\ \E salt \in Salts :
          LET req == requests[s]
              id == next_id.user
              db_obj == create_user(UserCreate(req.patch), salt)
          IN  IF ~EmailUnique(users, id, db_obj)
              THEN \* IntegrityError: no handler catches it
                   /\ Reply(s, ServerError(req))
                   /\ UNCHANGED <<users, next_id>>
              ELSE /\ users' = Insert(users, id, db_obj)
                   /\ next_id' = [next_id EXCEPT !.user = id + 1]
                   /\ Reply(s, Response([req EXCEPT !.id = id], 200, "",
                            Some([f \in DOMAIN db_obj \ {"hashed_password"} |-> db_obj[f]])))
    /\ UNCHANGED <<communities, events, now, fk_enforced, bearer>>

(* A caller of update_user: the row is read by email first *)
UpdateUserBegin(s, email, user_in) ==
    /\ Free(s)
    /\ \E user \in get_user_by_email(users, email) :
          /\ user # None
          /\ Reply(s, Request("update_user", 0, user[1], user_in,
                              Some(Loaded(users[user[1]], UserUpdateKeys(user_in)))))
    /\ UNCHANGED <<users, communities, events, next_id, now, fk_enforced, bearer>>

UpdateUserCommit(s) ==
    /\ Pending(s, "update_user")
    /\ \E salt \in FreshSalts(requests[s].row[1]) :
          LET req == requests[s]
              loaded == req.row[1]
              obj == update_user(loaded, req.patch, salt)
              row == Flushed(users[req.id], loaded, obj)
          IN  IF ~NotNull(row, UserNotNull) \/ ~EmailUnique(users, req.id, row)
              THEN \* IntegrityError
                   /\ Reply(s, ServerError(req))
                   /\ UNCHANGED users
              ELSE /\ users' = [users EXCEPT ![req.id] = row]
                   /\ Reply(s, Response(req, 200, "", Some(row)))
    /\ UNCHANGED <<communities, events, next_id, now, fk_enforced, bearer>>

----------------------------------------------------------------------------
(* Bearer tokens on later requests *)

(* Token Verifier: the subject of a token whose signature is valid and     *)
(* whose exp is later than the clock, and no subject otherwise             *)
verify(token, t) ==
    IF token.key = "SECRET_KEY" /\ token.exp > t THEN Some(token.sub) ELSE None

(* A resolver that refuses the token of an inactive identity *)
resolve_ActiveOnly(table, token, t) ==
    LET sub == verify(token, t)
        found == IF sub = None THEN {}
                 ELSE {k \in DOMAIN table : ToString(k) = sub[1] /\ table[k].is_active = Some(TRUE)}
    IN  IF found = {} THEN None ELSE Some(CHOOSE k \in found : TRUE)

(* Identity Resolver: the identity whose id is the subject of a token that *)
(* verifies, whatever its active flag, and none when the token does not    *)
(* verify or no identity has that id                                       *)
resolve(table, token, t) ==
    LET sub == verify(token, t)
        found == IF sub = None THEN {} ELSE {k \in DOMAIN table : ToString(k) = sub[1]}
    IN  IF found = {} THEN None ELSE Some(CHOOSE k \in found : TRUE)

(* user_authentication_headers: the client keeps the access_token of the   *)
(* login response for its Authorization header                             *)
UserAuthenticationHeaders(s) ==
    /\ requests[s].pc = "done"
    /\ requests[s].op = "login"
    /\ requests[s].status = 200
    /\ bearer' = Some(requests[s].body[1].access_token)
    /\ UNCHANGED <<users, communities, events, next_id, now, fk_enforced, requests>>

(* Depends(get_current_user) of a request that carries the token held: the *)
(* identity resolved, or Unauthenticated                                    *)
GetCurrentUser(s) ==
    /\ Free(s)
    /\ bearer # None
    /\ LET current_user == resolve(users, bearer[1], now)
           req == Request("get_current_user", 0, 0, NoPatch, None)
       IN  IF current_user = None
           THEN Reply(s, Response(req, 401, "Unauthenticated", None))
           ELSE Reply(s, Response([req EXCEPT !.caller = current_user[1]], 200, "", None))
    /\ UNCHANGED <<users, communities, events, next_id, now, fk_enforced, bearer>>

----------------------------------------------------------------------------
(* tests/utils.py *)

(* random_lower_string(): k = 32 letters *)
RandomStringLength == 32
RandomLowerStrings == {Password(RandomStringLength, 97), Password(RandomStringLength, 98)}

(* UserUpdate(password=password): only password is set *)
PasswordUpdate(password) ==
    [email |-> Unset, password |-> Set(Some(password)), is_active |-> Unset, full_name |-> Unset]

(* authentication_token_from_email: the password drawn and the read by email *)
AuthenticationTokenFromEmailBegin(s, email, password) ==
    /\ Free(s)
    /\ \E user \in get_user_by_email(users, email) :
          Reply(s, Request("authentication_token_from_email", 0,
                           IF user = None THEN 0 ELSE user[1],
                           [username |-> email, password |-> password],
                           IF user = None THEN None
                           ELSE Some(Loaded(users[user[1]], {"hashed_password"}))))
    /\ UNCHANGED <<users, communities, events, next_id, now, fk_enforced, bearer>>

(* authentication_token_from_email: create_user when no row was read,      *)
(* update_user with the new password otherwise                             *)
AuthenticationTokenFromEmailCommit(s) ==
    /\ Pending(s, "authentication_token_from_email")
    /\ LET req == requests[s]
       IN  IF req.row = None
           THEN /\ next_id.user <= MaxUsers
                /\ \E salt \in Salts :
                      LET id == next_id.user
                          db_obj == create_user(UserCreate([email |-> req.patch.username,
                                                            password |-> req.patch.password,
                                                            full_name |-> None]), salt)
                      IN  IF ~EmailUnique(users, id, db_obj)
                          THEN /\ Reply(s, ServerError(req))
                               /\ UNCHANGED <<users, next_id>>
                          ELSE /\ users' = Insert(users, id, db_obj)
                               /\ next_id' = [next_id EXCEPT !.user = id + 1]
                               /\ Reply(s, [req EXCEPT !.pc = "login", !.id = id, !.row = None])
           ELSE /\ \E salt \in FreshSalts(req.row[1]) :
                      LET loaded == req.row[1]
                          obj == update_user(loaded, PasswordUpdate(req.patch.password), salt)
                      IN  /\ users' = [users EXCEPT ![req.id] = Flushed(@, loaded, obj)]
                          /\ Reply(s, [req EXCEPT !.pc = "login", !.row = None])
                /\ UNCHANGED next_id
    /\ UNCHANGED <<communities, events, now, fk_enforced, bearer>>

(* user_authentication_headers: the login, and response["access_token"],   *)
(* which raises KeyError when the login was refused                        *)
AuthenticationTokenFromEmailLogin(s) ==
    /\ requests[s].pc = "login"
    /\ requests[s].op = "authentication_token_from_email"
    /\ \E db_user \in get_user_by_email(users, requests[s].patch.username) :
          LET req == requests[s]
              r == login_access_token(users, db_user, req, now)
          IN  IF r.status = 200
              THEN /\ bearer' = Some(r.body[1].access_token)
                   /\ Reply(s, [r EXCEPT !.detail = "Bearer"])
              ELSE /\ UNCHANGED bearer
                   /\ Reply(s, [r EXCEPT !.status = 500, !.detail = "KeyError: 'access_token'"])
    /\ UNCHANGED <<users, communities, events, next_id, now, fk_enforced>>

----------------------------------------------------------------------------
(* The credential hasher called on its own *)

(* The str arguments of get_password_hash and verify_password: any length, *)
(* here the shortest and the longest password of a request body and the    *)
(* secrets around the length bcrypt reads                                  *)
Secrets ==
    {Password(n, last) :
        n \in {MinPasswordLength, MaxPasswordLength, BcryptMaxBytes, BcryptMaxBytes + 1},
        last \in {97, 98}}

(* get_password_hash(password): the slot keeps the secret and the hash *)
GetPasswordHash(s, password) ==
    /\ Free(s)
    /\ \E salt \in Salts :
          Reply(s, [Response(Request("get_password_hash", 0, 0, NoPatch, None), 200, "",
                             Some(get_password_hash(password, salt)))
                      EXCEPT !.row = Some(password)])
    /\ UNCHANGED <<users, communities, events, next_id, now, fk_enforced, bearer>>

(* verify_password(plain_password, hashed_password) on the hash the slot keeps *)
VerifyPassword(s, plain_password) ==
    /\ requests[s].pc = "done"
    /\ requests[s].op \in {"get_password_hash", "verify_password"}
    /\ LET hashed_password ==
               IF requests[s].op = "get_password_hash" THEN requests[s].body[1]
               ELSE requests[s].patch.hashed_password
       IN  Reply(s, [requests[s] EXCEPT
                        !.op = "verify_password",
                        !.patch = [plain_password |-> plain_password,
                                   hashed_password |-> hashed_password],
                        !.body = Some(verify_password(plain_password, hashed_password))])
    /\ UNCHANGED <<users, communities, events, next_id, now, fk_enforced, bearer>>

----------------------------------------------------------------------------
(* The clock *)

Tick ==
    /\ now < MaxClock
    /\ now' = now + 1
    /\ UNCHANGED <<users, communities, events, next_id, fk_enforced, bearer, requests>>

----------------------------------------------------------------------------
(* Specifications *)

FreshIds == [user |-> 1, community |-> 1, event |-> 1]

(* The empty store *)
InitAuth ==
    /\ users = EmptyTable
    /\ communities = EmptyTable
    /\ events = EmptyTable
    /\ next_id = FreshIds
    /\ now = 0
    /\ fk_enforced = TRUE
    /\ bearer = None
    /\ requests = [s \in Slots |-> IdleRequest]

(* The identities POST /signup has created for Email(1) .. Email(MaxUsers) *)
RegisteredUsers ==
    [i \in UserIds |->
        create_user(UserCreate([email |-> Email(i), password |-> Password(MinPasswordLength, 97),
                                full_name |-> None]), 1)]

(* The store once these identities have signed up *)
Init ==
    /\ users = RegisteredUsers
    /\ communities = EmptyTable
    /\ events = EmptyTable
    /\ next_id = [FreshIds EXCEPT !.user = MaxUsers + 1]
    /\ now = 0
    /\ fk_enforced \in BOOLEAN
    /\ bearer = None
    /\ requests = [s \in Slots |-> IdleRequest]

(* A step of a request on identities, served in slot s *)
AuthStep(s) ==
    \/ \E username \in Emails, password \in Passwords : LoginAccessToken(s, username, password)
    \/ \E user_in \in UserRegister : RegisterUserBegin(s, user_in)
    \/ RegisterUserCommit(s)
    \/ \E email \in Emails, user_in \in UserUpdate : UpdateUserBegin(s, email, user_in)
    \/ UpdateUserCommit(s)

(* A step of a request that reads communities or events, served in slot s *)
ReadStep(s) ==
    \/ \E q \in CommunityQueries : GetCommunities(s, q)
    \/ \E id \in CommunityIds : GetCommunity(s, id)
    \/ \E q \in EventQueries : GetEvents(s, q)
    \/ \E id \in EventIds : GetEvent(s, id)

(* A step of a request that writes communities or events, served in slot s *)
WriteStep(s) ==
    \/ \E u \in AuthenticatedUsers, community_in \in CommunityCreate :
          CreateCommunity(s, u, community_in)
    \/ \E u \in AuthenticatedUsers, id \in CommunityIds, community_in \in CommunityUpdate :
          UpdateCommunityBegin(s, u, id, community_in)
    \/ UpdateCommunityCommit(s)
    \/ \E u \in AuthenticatedUsers, id \in CommunityIds : DeleteCommunityBegin(s, u, id)
    \/ DeleteCommunityCommit(s)
    \/ \E u \in AuthenticatedUsers, id \in CommunityIds : PermanentlyDeleteCommunityBegin(s, u, id)
    \/ PermanentlyDeleteCommunityCommit(s)
    \/ \E u \in AuthenticatedUsers, event_in \in EventCreate : CreateEventBegin(s, u, event_in)
    \/ CreateEventCommit(s)
    \/ \E u \in AuthenticatedUsers, id \in EventIds, event_in \in EventUpdate :
          UpdateEventBegin(s, u, id, event_in)
    \/ UpdateEventCommit(s)
    \/ \E u \in AuthenticatedUsers, id \in EventIds : DeleteEventBegin(s, u, id)
    \/ DeleteEventCommit(s)
    \/ \E u \in AuthenticatedUsers, id \in EventIds : PermanentlyDeleteEventBegin(s, u, id)
    \/ PermanentlyDeleteEventCommit(s)

(* Identities: requests served concurrently *)
NextAuth == (\E s \in Slots : AuthStep(s)) \/ Tick
SpecAuth == InitAuth /\ [][NextAuth]_vars

(* The registered identities, no token held *)
InitToken ==
    /\ users = RegisteredUsers
    /\ communities = EmptyTable
    /\ events = EmptyTable
    /\ next_id = [FreshIds EXCEPT !.user = MaxUsers + 1]
    /\ now = 0
    /\ fk_enforced = TRUE
    /\ bearer = None
    /\ requests = [s \in Slots |-> IdleRequest]

(* Tokens: logins, the token a client keeps, requests that carry it, and   *)
(* updates of the identities in between                                    *)
NextToken ==
    \/ \E s \in SeqSlots, username \in Emails, password \in Passwords :
          LoginAccessToken(s, username, password)
    \/ \E s \in SeqSlots : UserAuthenticationHeaders(s)
    \/ \E s \in SeqSlots : GetCurrentUser(s)
    \/ \E s \in SeqSlots, email \in Emails, user_in \in UserUpdate : UpdateUserBegin(s, email, user_in)
    \/ \E s \in SeqSlots : UpdateUserCommit(s)
    \/ Tick
SpecToken == InitToken /\ [][NextToken]_vars

(* The test helper on a store whose identities are also updated *)
NextTestUtils ==
    \/ \E s \in SeqSlots, email \in Emails, password \in RandomLowerStrings :
          AuthenticationTokenFromEmailBegin(s, email, password)
    \/ \E s \in SeqSlots : AuthenticationTokenFromEmailCommit(s)
    \/ \E s \in SeqSlots : AuthenticationTokenFromEmailLogin(s)
    \/ \E s \in SeqSlots, email \in Emails, user_in \in UserUpdate : UpdateUserBegin(s, email, user_in)
    \/ \E s \in SeqSlots : UpdateUserCommit(s)
    \/ Tick
SpecTestUtils == InitAuth /\ [][NextTestUtils]_vars

(* The credential hasher: every secret hashed, every secret verified       *)
(* against every hash                                                      *)
NextHash ==
    \/ \E s \in SeqSlots, password \in Secrets : GetPasswordHash(s, password)
    \/ \E s \in SeqSlots, plain_password \in Secrets : VerifyPassword(s, plain_password)
SpecHash == InitToken /\ [][NextHash]_vars

(* Communities and events: one request at a time *)
Next == (\E s \in SeqSlots : ReadStep(s) \/ WriteStep(s)) \/ Tick
Spec == Init /\ [][Next]_vars

(* Communities and events: writing requests served concurrently, and reads *)
(* by primary key                                                           *)
NextRace ==
    \/ \E s \in Slots : WriteStep(s)
    \/ \E s \in Slots, id \in CommunityIds : GetCommunity(s, id)
    \/ \E s \in Slots, id \in EventIds : GetEvent(s, id)
    \/ Tick
SpecRace == Init /\ [][NextRace]_vars

----------------------------------------------------------------------------
(* Vocabulary of the properties *)

CommunityMutations == {"update_community", "delete_community", "hard_delete_community"}
EventMutations == {"update_event", "delete_event", "hard_delete_event"}
Mutations == CommunityMutations \cup EventMutations

(* The table a mutation works on *)
TableOf(op) == IF op \in CommunityMutations THEN communities ELSE events

(* The NOT NULL columns of that table *)
NotNullOf(op) == IF op \in CommunityMutations THEN CommunityNotNull ELSE EventNotNull

(* This step sends the response of slot s *)
Answers(s) == requests'[s].pc = "done" /\ requests'[s] # requests[s]

(* This step sends the response of slot s to a mutation of a stored resource *)
AnswersMutation(s) ==
    /\ Answers(s)
    /\ requests'[s].op \in Mutations
    /\ requests'[s].id \in DOMAIN TableOf(requests'[s].op)

(* The body of the pending update sets a NOT NULL column to null *)
NullsRequiredColumn(req) ==
    /\ req.pc = "commit"
    /\ req.op \in {"update_community", "update_event"}
    /\ \E f \in FieldsSet(req.patch) \cap NotNullOf(req.op) : req.patch[f] = Set(None)

(* The pending hard delete is of a community that an event references, in a *)
(* store that enforces the foreign key                                      *)
DeletesReferencedCommunity(req) ==
    /\ req.pc = "commit"
    /\ req.op = "hard_delete_community"
    /\ fk_enforced
    /\ EventsOfCommunity(req.id) # {}

StoreUnchanged == UNCHANGED <<users, communities, events>>

----------------------------------------------------------------------------
(* C1 (as claimed): a mutation of a stored Community or Event by an        *)
(* identity other than its creator is answered 403 and changes nothing,    *)
(* and the same mutation by its creator succeeds (200).                    *)
C1_OnlyCreatorMutates_Claimed ==
    [][\A s \in SeqSlots :
          AnswersMutation(s) =>
             LET resp == requests'[s]
                 resource == TableOf(resp.op)[resp.id]
             IN  IF resp.caller # resource.created_by
                 THEN resp.status = 403 /\ StoreUnchanged
                 ELSE resp.status = 200]_vars

(* C1 (amended): a mutation of a stored Community or Event by an identity  *)
(* other than its creator is answered 403 and changes nothing; the same    *)
(* mutation by its creator is answered 200, except that an update whose    *)
(* body sets a NOT NULL column to null, and a hard delete of a Community   *)
(* that an Event references in a store enforcing the foreign key, are      *)
(* answered 500 and change nothing.                                        *)
C1_OnlyCreatorMutates ==
    [][\A s \in SeqSlots :
          AnswersMutation(s) =>
             LET resp == requests'[s]
                 resource == TableOf(resp.op)[resp.id]
             IN  IF resp.caller # resource.created_by
                 THEN resp.status = 403 /\ StoreUnchanged
                 ELSE IF NullsRequiredColumn(requests[s]) \/ DeletesReferencedCommunity(requests[s])
                 THEN resp.status = 500 /\ StoreUnchanged
                 ELSE resp.status = 200]_vars

(* C1 witness: an identity that did not create the event was refused its   *)
(* hard delete, after the creator had renamed and soft-deleted the event   *)
C1_Witness ==
    \E s \in SeqSlots :
        /\ requests[s].pc = "done"
        /\ requests[s].op = "hard_delete_event"
        /\ requests[s].status = 403
        /\ requests[s].id \in DOMAIN events
        /\ events[requests[s].id].created_by # requests[s].caller
        /\ events[requests[s].id].title = Some("t2")
        /\ events[requests[s].id].is_active = Some(FALSE)

----------------------------------------------------------------------------
(* Vocabulary of the login properties *)

EmailTaken == "The user with this email already exists in the system"
InvalidCredentials == "Incorrect email or password"
InactiveUser == "Inactive user"

(* The stored hash of a found identity *)
HashOf(db_user) == users[db_user[1]].hashed_password[1]

(* The response a login with these credentials gets in this state, given   *)
(* the row the lookup by email returned                                     *)
LoginNow(db_user, email, password) ==
    login_access_token(users, db_user, LoginRequest(email, password), now)

Refused(resp, detail) == resp.status = 400 /\ resp.detail = detail /\ resp.body = None

----------------------------------------------------------------------------
(* C2: when a signup is answered 200, a login with the same email and      *)
(* password is answered 200 with a token whose sub is the decimal string   *)
(* of the id of the identity the signup created.                           *)
C2_SignupThenLogin ==
    [][\A s \in Slots :
          (Answers(s) /\ requests'[s].op = "register_user" /\ requests'[s].status = 200) =>
             LET user_in == requests[s].patch
                 id == requests'[s].id
             IN  /\ id \in DOMAIN users' \ DOMAIN users
                 /\ users'[id].email = Some(user_in.email)
                 /\ \A db_user \in get_user_by_email(users', user_in.email) :
                       LET resp == login_access_token(users', db_user,
                                      LoginRequest(user_in.email, user_in.password), now')
                       IN  /\ resp.status = 200
                           /\ resp.body # None
                           /\ resp.body[1].access_token.sub = ToString(id)]_vars

(* C2 witness: a login answered with a token for the identity that signed  *)
(* up second                                                                *)
C2_Witness ==
    \E s \in Slots :
        /\ requests[s].pc = "done"
        /\ requests[s].op = "login"
        /\ requests[s].status = 200
        /\ 2 \in DOMAIN users
        /\ users[2].email = Some(requests[s].patch.username)
        /\ requests[s].body[1].access_token.sub = ToString(2)

(* C3 (as claimed): a signup that is not answered 200 is answered 400      *)
(* EmailTaken, also when its write lost the race on the unique email.      *)
C3_RaceLoserGetsEmailTaken ==
    \A s \in Slots :
        (requests[s].pc = "done" /\ requests[s].op = "register_user" /\ requests[s].status # 200)
            => (requests[s].status = 400 /\ requests[s].detail = EmailTaken)

(* C4: no two stored identities have the same email. *)
C4_EmailsDistinct ==
    \A a, b \in DOMAIN users : a # b => users[a].email # users[b].email

(* C4 witness: two identities are stored and an update_user that would     *)
(* have given one the email of the other was rejected                      *)
C4_Witness ==
    /\ Cardinality(DOMAIN users) = 2
    /\ \E s \in Slots :
          /\ requests[s].pc = "done"
          /\ requests[s].op = "update_user"
          /\ requests[s].status = 500

(* C5: a signup whose email belongs to a stored identity when the request  *)
(* begins is answered 400 EmailTaken at once and changes no identity.      *)
C5_SecondSignupRefused ==
    [][\A s \in Slots, user_in \in UserRegister :
          (/\ RegisterUserBegin(s, user_in)
           /\ \E k \in DOMAIN users : users[k].email = Some(user_in.email))
             => /\ requests'[s].pc = "done"
                /\ Refused(requests'[s], EmailTaken)
                /\ users' = users
                /\ next_id' = next_id]_vars

(* C5 witness: a signup was refused with EmailTaken while one identity is  *)
(* stored                                                                   *)
C5_Witness ==
    /\ Cardinality(DOMAIN users) = 1
    /\ \E s \in Slots :
          /\ requests[s].pc = "done"
          /\ requests[s].op = "register_user"
          /\ Refused(requests[s], EmailTaken)

(* C6: a login with an email no identity has and a login with a stored     *)
(* email and a password that does not verify get the same status and       *)
(* detail, and neither gets a token.                                       *)
C6_SameRefusal ==
    \A e1, e2 \in Emails, p1, p2 \in Passwords :
        \A u1 \in get_user_by_email(users, e1), u2 \in get_user_by_email(users, e2) :
            (u1 = None /\ u2 # None /\ ~verify_password(p2, HashOf(u2)))
                => LET r1 == LoginNow(u1, e1, p1)
                       r2 == LoginNow(u2, e2, p2)
                   IN  /\ r1.status = 400 /\ r2.status = 400
                       /\ r1.detail = r2.detail
                       /\ r1.body = None /\ r2.body = None

(* C6 witness: a login with the email of a stored identity was refused     *)
(* with the detail of invalid credentials, while the other email is unknown *)
C6_Witness ==
    \E s \in Slots, k \in DOMAIN users :
        /\ requests[s].pc = "done"
        /\ requests[s].op = "login"
        /\ Refused(requests[s], InvalidCredentials)
        /\ users[k].email = Some(requests[s].patch.username)
        /\ \E e \in Emails : get_user_by_email(users, e) = {None}

(* C7 (as claimed): a login for a stored identity that is inactive is      *)
(* refused with "Inactive user", whether or not the password verifies.     *)
C7_InactiveBeforePassword ==
    \A e \in Emails, p \in Passwords :
        \A db_user \in get_user_by_email(users, e) :
            (db_user # None /\ users[db_user[1]].is_active = Some(FALSE))
                => Refused(LoginNow(db_user, e, p), InactiveUser)

(* C7 (amended): login checks, in order, that the identity is found, that  *)
(* the password verifies, and only then that the identity is active; an    *)
(* inactive identity gets "Inactive user" when the password verifies and   *)
(* the invalid-credentials detail when it does not, and never a token.     *)
C7_PasswordBeforeInactive ==
    \A e \in Emails, p \in Passwords :
        \A db_user \in get_user_by_email(users, e) :
            LET resp == LoginNow(db_user, e, p)
            IN  IF db_user = None THEN Refused(resp, InvalidCredentials)
                ELSE IF ~verify_password(p, HashOf(db_user)) THEN Refused(resp, InvalidCredentials)
                ELSE IF users[db_user[1]].is_active # Some(TRUE) THEN Refused(resp, InactiveUser)
                ELSE resp.status = 200 /\ resp.body # None

(* C7 witness: a login for an inactive identity was refused with           *)
(* "Inactive user"                                                          *)
C7_Witness ==
    \E s \in Slots, k \in DOMAIN users :
        /\ requests[s].pc = "done"
        /\ requests[s].op = "login"
        /\ Refused(requests[s], InactiveUser)
        /\ users[k].email = Some(requests[s].patch.username)
        /\ users[k].is_active = Some(FALSE)

----------------------------------------------------------------------------
(* Vocabulary of the soft-delete and hard-delete properties *)

SoftDeletes == {"delete_community", "delete_event"}
HardDeletes == {"hard_delete_community", "hard_delete_event"}

(* The table a mutation works on, after the step *)
TableAfter(op) == IF op \in CommunityMutations THEN communities' ELSE events'

Listed(id, result) == \E i \in DOMAIN result : result[i] = id

(* The results of the listing of the resource's kind after the step, with  *)
(* every argument at its default but the is_active filter                  *)
ListingsAfter(op, is_active) ==
    IF op \in CommunityMutations
    THEN get_communities(communities', DefaultSkip, DefaultLimit, None, is_active)
    ELSE get_events(events', DefaultSkip, DefaultLimit, None, None, is_active, FALSE, now')

(* What GET by id returns after the step *)
GetAfter(op, id) ==
    IF op \in CommunityMutations THEN get_community(communities', id) ELSE get_event(events', id)

(* This step answers 200 to the soft delete of slot s *)
AnswersSoftDelete(s) ==
    Answers(s) /\ requests'[s].op \in SoftDeletes /\ requests'[s].status = 200

----------------------------------------------------------------------------
(* C8 (as claimed): after a soft delete answered 200 the row is stored     *)
(* with is_active false, no listing called with default arguments returns  *)
(* it, and GET by id returns it.                                           *)
C8_SoftDeleteHides_Claimed ==
    [][\A s \in SeqSlots :
          AnswersSoftDelete(s) =>
             LET op == requests[s].op
                 id == requests[s].id
             IN  /\ id \in DOMAIN TableAfter(op)
                 /\ TableAfter(op)[id].is_active = Some(FALSE)
                 /\ \A result \in ListingsAfter(op, None) : ~Listed(id, result)
                 /\ GetAfter(op, id) = Some(TableAfter(op)[id])]_vars

(* C8 (amended): after a soft delete answered 200 the row is stored with   *)
(* is_active false and GET by id returns it; a listing called with         *)
(* is_active=true does not return it, but a listing called with default    *)
(* arguments, which filters nothing on is_active, still returns it.        *)
C8_SoftDeleteHides ==
    [][\A s \in SeqSlots :
          AnswersSoftDelete(s) =>
             LET op == requests[s].op
                 id == requests[s].id
             IN  /\ id \in DOMAIN TableAfter(op)
                 /\ TableAfter(op)[id].is_active = Some(FALSE)
                 /\ \A result \in ListingsAfter(op, Some(TRUE)) : ~Listed(id, result)
                 /\ \A result \in ListingsAfter(op, None) : Listed(id, result)
                 /\ GetAfter(op, id) = Some(TableAfter(op)[id])]_vars

(* C8 witness: the soft delete of a stored community was answered 200 and  *)
(* the row is stored inactive                                              *)
C8_Witness ==
    \E s \in SeqSlots :
        /\ requests[s].pc = "done"
        /\ requests[s].op = "delete_community"
        /\ requests[s].status = 200
        /\ requests[s].id \in DOMAIN communities
        /\ communities[requests[s].id].is_active = Some(FALSE)

----------------------------------------------------------------------------
(* C9: a row of Community or Event appears only by a create request, with  *)
(* a fresh id and created_by equal to the id of the caller, and no step    *)
(* changes the created_by of a stored row.                                 *)
C9_CreatedByFixed ==
    [][/\ \A id \in DOMAIN communities' :
             IF id \in DOMAIN communities
             THEN communities'[id].created_by = communities[id].created_by
             ELSE /\ id = next_id.community
                  /\ \E s \in Slots :
                        /\ Answers(s)
                        /\ requests'[s].op = "create_community"
                        /\ requests'[s].id = id
                        /\ requests'[s].caller \in DOMAIN users
                        /\ communities'[id].created_by = requests'[s].caller
       /\ \A id \in DOMAIN events' :
             IF id \in DOMAIN events
             THEN events'[id].created_by = events[id].created_by
             ELSE /\ id = next_id.event
                  /\ \E s \in Slots :
                        /\ Answers(s)
                        /\ requests'[s].op = "create_event"
                        /\ requests'[s].id = id
                        /\ requests'[s].caller \in DOMAIN users
                        /\ events'[id].created_by = requests'[s].caller]_vars

(* C9 witness: a community created by identity 2 has been renamed and      *)
(* soft-deleted and an event of identity 2 has been renamed                *)
C9_Witness ==
    \E c \in DOMAIN communities, e \in DOMAIN events :
        /\ communities[c].created_by = 2
        /\ communities[c].name = Some("n2")
        /\ communities[c].is_active = Some(FALSE)
        /\ events[e].created_by = 2
        /\ events[e].title = Some("t2")

----------------------------------------------------------------------------
(* The ids the store has given out and holds no row for *)
RemovedCommunities == {id \in CommunityIds : id < next_id.community /\ id \notin DOMAIN communities}
RemovedEvents == {id \in EventIds : id < next_id.event /\ id \notin DOMAIN events}

(* No step stores a row under a removed id, and a GET by a removed id that *)
(* this step answers is answered 404                                       *)
RemovedStaysRemoved ==
    /\ \A id \in RemovedCommunities : id \notin DOMAIN communities'
    /\ \A id \in RemovedEvents : id \notin DOMAIN events'
    /\ \A s \in Slots :
          (/\ Answers(s)
           /\ \/ requests'[s].op = "get_community" /\ requests'[s].id \in RemovedCommunities
              \/ requests'[s].op = "get_event" /\ requests'[s].id \in RemovedEvents)
             => requests'[s].status = 404

(* This step answers the hard delete that slot s was about to write *)
AnswersHardDelete(s) ==
    Answers(s) /\ requests[s].pc = "commit" /\ requests[s].op \in HardDeletes

(* C10 (as claimed): when the hard delete of the creator is answered the   *)
(* row is gone, whether or not it was soft-deleted, and a removed row stays *)
(* removed under every interleaving: no update or soft delete that read it *)
(* before stores it again, and GET by its id is answered 404.              *)
C10_HardDeletePermanent_Claimed ==
    [][/\ \A s \in Slots :
             AnswersHardDelete(s) => requests[s].id \notin DOMAIN TableAfter(requests[s].op)
       /\ RemovedStaysRemoved]_vars

(* C10 (amended): when the hard delete of the creator is answered the row  *)
(* is gone, whether or not it was soft-deleted, except that the hard       *)
(* delete of a Community that an Event references in a store enforcing the *)
(* foreign key is answered 500 and removes nothing; a removed row stays    *)
(* removed under every interleaving, and GET by its id is answered 404.    *)
C10_HardDeletePermanent ==
    [][/\ \A s \in Slots :
             AnswersHardDelete(s) =>
                IF DeletesReferencedCommunity(requests[s]) /\ requests[s].id \in DOMAIN communities
                THEN requests'[s].status = 500 /\ StoreUnchanged
                ELSE requests[s].id \notin DOMAIN TableAfter(requests[s].op)
       /\ RemovedStaysRemoved]_vars

(* C10 witness: an update that had read the community before its hard      *)
(* delete was answered 500 and the row is still gone                       *)
C10_Witness ==
    \E s \in Slots :
        /\ requests[s].pc = "done"
        /\ requests[s].op = "update_community"
        /\ requests[s].status = 500
        /\ requests[s].id \in RemovedCommunities

----------------------------------------------------------------------------
(* This step answers a mutation that slot s had not yet read a row for *)
AnswersAtRead(s) ==
    Answers(s) /\ requests[s].pc # "commit" /\ requests'[s].op \in Mutations

(* C11: an update, soft delete or hard delete of an id without stored row  *)
(* is answered 404 whoever the authenticated caller is; 403 is answered    *)
(* only for an id with a stored row; and a step that answers 404 or 403    *)
(* changes nothing in the store.                                           *)
C11_NotFoundBeforeForbidden ==
    [][\A s \in SeqSlots :
          AnswersAtRead(s) =>
             LET resp == requests'[s]
             IN  /\ resp.caller \in AuthenticatedUsers
                 /\ resp.id \notin DOMAIN TableOf(resp.op) => resp.status = 404
                 /\ resp.status = 403 => resp.id \in DOMAIN TableOf(resp.op)
                 /\ resp.status \in {403, 404} => StoreUnchanged /\ next_id' = next_id]_vars

(* C11 witness: the update of a community that had been removed was        *)
(* answered 404 to the identity that had created it                        *)
C11_Witness ==
    \E s \in SeqSlots :
        /\ requests[s].pc = "done"
        /\ requests[s].op = "update_community"
        /\ requests[s].status = 404
        /\ requests[s].id \in RemovedCommunities
        /\ requests[s].caller = 1
        /\ \E e \in DOMAIN events : events[e].community_id = requests[s].id /\ events[e].created_by = 1

----------------------------------------------------------------------------
Updates == {"update_community", "update_event"}

(* This step answers 200 to the update that slot s was about to write *)
AnswersUpdate(s) ==
    /\ Answers(s)
    /\ requests[s].pc = "commit"
    /\ requests[s].op \in Updates
    /\ requests'[s].status = 200

(* The rows other than id of the table of op are the same after the step,  *)
(* and so is the other table                                               *)
OtherRowsUnchanged(op, id) ==
    /\ DOMAIN TableAfter(op) = DOMAIN TableOf(op)
    /\ \A k \in DOMAIN TableOf(op) \ {id} : TableAfter(op)[k] = TableOf(op)[k]
    /\ IF op \in CommunityMutations THEN UNCHANGED events ELSE UNCHANGED communities
    /\ UNCHANGED users

(* C12 (as claimed): an update answered 200 gives every field of the patch *)
(* its value of the patch and leaves every other field of the stored row   *)
(* as it was.                                                              *)
C12_PatchFrame_Claimed ==
    [][\A s \in SeqSlots :
          AnswersUpdate(s) =>
             LET req == requests[s]
                 before == TableOf(req.op)[req.id]
                 after == TableAfter(req.op)[req.id]
             IN  /\ DOMAIN after = DOMAIN before
                 /\ \A f \in FieldsSet(req.patch) : after[f] = req.patch[f][1]
                 /\ \A f \in DOMAIN before \ FieldsSet(req.patch) : after[f] = before[f]
                 /\ OtherRowsUnchanged(req.op, req.id)]_vars

(* C12 (amended): an update answered 200 gives every field of the patch    *)
(* its value of the patch, sets updated_at to the time of the update, and  *)
(* leaves every other field of the stored row, and every other row, as it  *)
(* was.                                                                    *)
C12_PatchFrame ==
    [][\A s \in SeqSlots :
          AnswersUpdate(s) =>
             LET req == requests[s]
                 before == TableOf(req.op)[req.id]
                 after == TableAfter(req.op)[req.id]
             IN  /\ DOMAIN after = DOMAIN before
                 /\ \A f \in FieldsSet(req.patch) : after[f] = req.patch[f][1]
                 /\ after.updated_at = Some(now)
                 /\ \A f \in DOMAIN before \ (FieldsSet(req.patch) \cup {"updated_at"}) :
                       after[f] = before[f]
                 /\ OtherRowsUnchanged(req.op, req.id)]_vars

(* C12 witness: a soft-deleted community was renamed at a later time: it   *)
(* is still inactive and carries the time of the update                    *)
C12_Witness ==
    \E s \in SeqSlots :
        /\ requests[s].pc = "done"
        /\ requests[s].op = "update_community"
        /\ requests[s].status = 200
        /\ requests[s].id \in DOMAIN communities
        /\ communities[requests[s].id].name = Some("n2")
        /\ communities[requests[s].id].is_active = Some(FALSE)
        /\ communities[requests[s].id].updated_at = Some(MaxClock)

----------------------------------------------------------------------------
(* This step answers 200 to a login *)
AnswersLogin(s) ==
    Answers(s) /\ requests'[s].op = "login" /\ requests'[s].status = 200

(* This step answers a request that carried the token held *)
AnswersBearer(s) == Answers(s) /\ requests'[s].op = "get_current_user"

(* C13: the token of a login answered at time t has exp = t + ttl and the  *)
(* decimal id of the identity as subject; a request that carries a token   *)
(* resolves to the subject when the clock is before exp and is refused as  *)
(* Unauthenticated when the clock has reached exp.                         *)
C13_TokenExpiry ==
    [][\A s \in SeqSlots :
          /\ AnswersLogin(s) =>
                LET token == requests'[s].body[1].access_token
                IN  /\ token.exp = now + ACCESS_TOKEN_EXPIRE_MINUTES
                    /\ \E k \in DOMAIN users :
                          /\ users[k].email = Some(requests'[s].patch.username)
                          /\ token.sub = ToString(k)
                    /\ \A t \in 0..(MaxClock + ACCESS_TOKEN_EXPIRE_MINUTES) :
                          (verify(token, t) = Some(token.sub)) <=> (t < now + ACCESS_TOKEN_EXPIRE_MINUTES)
          /\ AnswersBearer(s) =>
                IF now < bearer[1].exp
                THEN /\ requests'[s].status = 200
                     /\ ToString(requests'[s].caller) = bearer[1].sub
                ELSE requests'[s].status = 401]_vars

(* C13 witness: a request that carried a token was refused when the clock  *)
(* had reached the exp of the token                                        *)
C13_Witness ==
    \E s \in SeqSlots :
        /\ requests[s].pc = "done"
        /\ requests[s].op = "get_current_user"
        /\ requests[s].status = 401
        /\ bearer # None
        /\ bearer[1].exp = now

----------------------------------------------------------------------------
----------------------------------------------------------------------------
(* The password the pending request sets, if it sets one *)
PasswordSet(req) ==
    IF req.op = "register_user" THEN Some(req.patch.password)
    ELSE IF req.op = "update_user" /\ "password" \in FieldsSet(req.patch) THEN req.patch.password[1]
    ELSE None

(* This step answers 200 to the write of slot s, a write of an identity *)
AnswersUserWrite(s) ==
    /\ Answers(s)
    /\ requests[s].pc = "commit"
    /\ requests[s].op \in {"register_user", "update_user"}
    /\ requests'[s].status = 200

----------------------------------------------------------------------------
(* C16 (as claimed): verify_password(s1, get_password_hash(s2)) is true    *)
(* when s1 = s2 and false when s1 # s2, for all secrets.                   *)
C16_VerifyIffSameSecret ==
    \A s \in SeqSlots :
        (requests[s].pc = "done" /\ requests[s].op = "verify_password")
            => (requests[s].body[1] <=> requests[s].patch.plain_password = requests[s].row[1])

----------------------------------------------------------------------------
(* C17 (as claimed): whenever authentication_token_from_email ends, it     *)
(* ends with a token whose subject is the id of the identity that has the  *)
(* email given.                                                            *)
C17_HelperAlwaysGetsToken ==
    \A s \in SeqSlots :
        (requests[s].pc = "done" /\ requests[s].op = "authentication_token_from_email")
            => /\ requests[s].status = 200
               /\ bearer # None
               /\ \E k \in DOMAIN users :
                     /\ users[k].email = Some(requests[s].patch.username)
                     /\ bearer[1].sub = ToString(k)

----------------------------------------------------------------------------
(* Every stored event whose community is stored has the creator of that    *)
(* community as its creator                                                *)
EventsBelongToCommunityCreator ==
    \A e \in DOMAIN events :
        events[e].community_id \in DOMAIN communities
            => events[e].created_by = communities[events[e].community_id].created_by

----------------------------------------------------------------------------
(* The row that the mutation of req addresses is stored and soft-deleted *)
SoftDeleted(req) ==
    /\ req.op \in Mutations
    /\ req.id \in DOMAIN TableOf(req.op)
    /\ TableOf(req.op)[req.id].is_active = Some(FALSE)

(* This step is the guard of a mutation that its creator requests on a     *)
(* soft-deleted row                                                        *)
OwnerAsksForSoftDeleted(s) ==
    /\ requests[s].pc # "commit"
    /\ requests'[s] # requests[s]
    /\ SoftDeleted(requests'[s])
    /\ TableOf(requests'[s].op)[requests'[s].id].created_by = requests'[s].caller

(* This step answers a mutation that passed the guard, on a soft-deleted row *)
AnswersOnSoftDeleted(s) ==
    Answers(s) /\ requests[s].pc = "commit" /\ SoftDeleted(requests[s])

(* The guard lets the creator through, the second soft delete and the      *)
(* reactivating update are answered 200 with the flag false and true       *)
SoftDeletedStaysMutable_Claimed(s) ==
    LET req == requests[s]
    IN  /\ OwnerAsksForSoftDeleted(s) => requests'[s].pc = "commit"
        /\ AnswersOnSoftDeleted(s) =>
              /\ requests'[s].status # 404
              /\ req.op \in SoftDeletes =>
                    /\ requests'[s].status = 200
                    /\ TableAfter(req.op)[req.id].is_active = Some(FALSE)
              /\ (req.op \in Updates /\ req.patch.is_active = Set(Some(TRUE))) =>
                    /\ requests'[s].status = 200
                    /\ TableAfter(req.op)[req.id].is_active = Some(TRUE)

(* The same, except that a reactivating update whose body also sets a      *)
(* NOT NULL column to null is answered 500 and changes nothing             *)
SoftDeletedStaysMutable(s) ==
    LET req == requests[s]
    IN  /\ OwnerAsksForSoftDeleted(s) => requests'[s].pc = "commit"
        /\ AnswersOnSoftDeleted(s) =>
              /\ requests'[s].status # 404
              /\ req.op \in SoftDeletes =>
                    /\ requests'[s].status = 200
                    /\ TableAfter(req.op)[req.id].is_active = Some(FALSE)
              /\ (req.op \in Updates /\ req.patch.is_active = Set(Some(TRUE))) =>
                    IF NullsRequiredColumn(req)
                    THEN requests'[s].status = 500 /\ StoreUnchanged
                    ELSE /\ requests'[s].status = 200
                         /\ TableAfter(req.op)[req.id].is_active = Some(TRUE)

====
